---- MODULE Spec2Model ----
(***************************************************************************)
(* Model of the flexible tool adapter of the MNotify agent                 *)
(* (src/tool_adapter.py): the registry that merges the alias tables into   *)
(* the overrides, and the wrapper pipeline                                 *)
(*   envelope unwrap -> normalizer -> alias resolver -> defaults/binding   *)
(*   -> validator -> domain function invocation.                           *)
(*                                                                         *)
(* Python values are records of one shape, so that any two are comparable: *)
(*   t  the Python type: "none" "str" "bool" "int" "list" "dict"           *)
(*   s  a str, as the sequence of its characters                           *)
(*   b  a bool,  n  an int                                                 *)
(*   l  a list, as the sequence of its elements (values)                   *)
(*   d  a dict, as the sequence of its items [k, v] in insertion order     *)
(* Parameter names (dict keys) are TLA+ strings.                           *)
(***************************************************************************)
EXTENDS Integers, Sequences, FiniteSets, TLC

(***************************************************************************)
(* Python values                                                           *)
(***************************************************************************)
NoneV == [t |-> "none", s |-> <<>>, b |-> FALSE, n |-> 0, l |-> <<>>, d |-> <<>>]

StrV(x) == [NoneV EXCEPT !.t = "str", !.s = x]

BoolV(x) == [NoneV EXCEPT !.t = "bool", !.b = x]

IntV(x) == [NoneV EXCEPT !.t = "int", !.n = x]

ListV(x) == [NoneV EXCEPT !.t = "list", !.l = x]

DictV(x) == [NoneV EXCEPT !.t = "dict", !.d = x]

\* bool(value): Python truthiness.
PyTruthy(v) ==
    CASE v.t = "none" -> FALSE
      [] v.t = "bool" -> v.b
      [] v.t = "int"  -> v.n # 0
      [] v.t = "str"  -> v.s # <<>>
      [] v.t = "list" -> v.l # <<>>
      [] v.t = "dict" -> v.d # <<>>

\* a == b of Python: a bool compares as the int 0 or 1; a dict compares
\* without regard to the order of its items.
RECURSIVE PyEq(_, _)
PyEq(a, b) ==
    LET num(v) == IF v.t = "bool" THEN (IF v.b THEN 1 ELSE 0) ELSE v.n
        isnum(v) == v.t \in {"bool", "int"}
    IN  CASE isnum(a) /\ isnum(b) -> num(a) = num(b)
          [] a.t # b.t -> FALSE
          [] a.t = "none" -> TRUE
          [] a.t = "str" -> a.s = b.s
          [] a.t = "list" ->
                /\ Len(a.l) = Len(b.l)
                /\ \A i \in DOMAIN a.l : PyEq(a.l[i], b.l[i])
          [] a.t = "dict" ->
                /\ {a.d[i].k : i \in DOMAIN a.d} = {b.d[i].k : i \in DOMAIN b.d}
                /\ \A i \in DOMAIN a.d : \A j \in DOMAIN b.d :
                      a.d[i].k = b.d[j].k => PyEq(a.d[i].v, b.d[j].v)

(***************************************************************************)
(* Python str methods, on character sequences                              *)
(***************************************************************************)
\* str.isspace() of one character (ASCII whitespace).
IsSpace(c) == c \in {" ", "\t", "\n", "\r", "\f"}

RECURSIVE LStripSet(_, _)
LStripSet(s, cs) ==
    IF s # <<>> /\ Head(s) \in cs THEN LStripSet(Tail(s), cs) ELSE s

RECURSIVE RStripSet(_, _)
RStripSet(s, cs) ==
    IF s # <<>> /\ s[Len(s)] \in cs
    THEN RStripSet(SubSeq(s, 1, Len(s) - 1), cs) ELSE s

\* s.strip(chars)
StripSet(s, cs) == RStripSet(LStripSet(s, cs), cs)

WhiteSpace == {" ", "\t", "\n", "\r", "\f"}

\* s.strip()
Strip(s) == StripSet(s, WhiteSpace)

UpperChars == <<"A", "B", "C", "D", "E", "F", "G", "H", "I", "J", "K", "L", "M",
                "N", "O", "P", "Q", "R", "S", "T", "U", "V", "W", "X", "Y", "Z">>

LowerChars == <<"a", "b", "c", "d", "e", "f", "g", "h", "i", "j", "k", "l", "m",
                "n", "o", "p", "q", "r", "s", "t", "u", "v", "w", "x", "y", "z">>

LowerChar(c) ==
    IF \E i \in DOMAIN UpperChars : UpperChars[i] = c
    THEN LowerChars[CHOOSE i \in DOMAIN UpperChars : UpperChars[i] = c]
    ELSE c

\* s.lower()
Lower(s) == [i \in DOMAIN s |-> LowerChar(s[i])]

\* s.split(sep) for a one-character sep: empty pieces are kept.
RECURSIVE SplitOn(_, _)
SplitOn(s, sep) ==
    IF \A i \in DOMAIN s : s[i] # sep
    THEN <<s>>
    ELSE LET i == CHOOSE j \in DOMAIN s :
                      s[j] = sep /\ \A m \in 1..(j - 1) : s[m] # sep
         IN  <<SubSeq(s, 1, i - 1)>> \o SplitOn(SubSeq(s, i + 1, Len(s)), sep)

\* s.split(): split on runs of whitespace, no empty pieces.
RECURSIVE SplitWs(_)
SplitWs(s) ==
    LET r == LStripSet(s, WhiteSpace)
    IN  IF r = <<>>
        THEN <<>>
        ELSE IF \A i \in DOMAIN r : ~IsSpace(r[i])
             THEN <<r>>
             ELSE LET i == CHOOSE j \in DOMAIN r :
                               IsSpace(r[j]) /\ \A m \in 1..(j - 1) : ~IsSpace(r[m])
                  IN  <<SubSeq(r, 1, i - 1)>> \o SplitWs(SubSeq(r, i, Len(r)))

\* sep.join(parts)
RECURSIVE Join(_, _)
Join(parts, sep) ==
    IF parts = <<>> THEN <<>>
    ELSE IF Len(parts) = 1 THEN parts[1]
    ELSE parts[1] \o sep \o Join(Tail(parts), sep)

DigitChars == <<"0", "1", "2", "3", "4", "5", "6", "7", "8", "9">>

\* str(n) of an int, as characters.
RECURSIVE DecimalChars(_)
DecimalChars(n) ==
    IF n < 0 THEN <<"-">> \o DecimalChars(0 - n)
    ELSE IF n < 10 THEN <<DigitChars[n + 1]>>
    ELSE DecimalChars(n \div 10) \o <<DigitChars[(n % 10) + 1]>>

\* repr(s) of a str: single quotes unless s holds a single and no double
\* quote; the quote, the backslash and control characters are escaped.
ReprStr(s) ==
    LET q == IF (\E i \in DOMAIN s : s[i] = "'") /\ (\A i \in DOMAIN s : s[i] # "\"")
             THEN "\"" ELSE "'"
        esc(c) == CASE c = "\\" -> <<"\\", "\\">>
                    [] c = q -> <<"\\", q>>
                    [] c = "\n" -> <<"\\", "n">>
                    [] c = "\t" -> <<"\\", "t">>
                    [] c = "\r" -> <<"\\", "r">>
                    [] c = "\f" -> <<"\\", "x", "0", "c">>
                    [] OTHER -> <<c>>
    IN  <<q>> \o Join([i \in DOMAIN s |-> esc(s[i])], <<>>) \o <<q>>

\* str(value) and repr(value).  The text of a non-empty dict is not
\* modelled: no input holds one under a declared parameter.
RECURSIVE PyStr(_)
RECURSIVE PyRepr(_)
PyStr(v) ==
    CASE v.t = "none" -> <<"N", "o", "n", "e">>
      [] v.t = "str" -> v.s
      [] v.t = "bool" -> IF v.b THEN <<"T", "r", "u", "e">>
                                ELSE <<"F", "a", "l", "s", "e">>
      [] v.t = "int" -> DecimalChars(v.n)
      [] v.t = "list" ->
            <<"[">> \o Join([i \in DOMAIN v.l |-> PyRepr(v.l[i])], <<",", " ">>) \o <<"]">>
      [] v.t = "dict" /\ v.d = <<>> -> <<"{", "}">>

PyRepr(v) == IF v.t = "str" THEN ReprStr(v.s) ELSE PyStr(v)

(***************************************************************************)
(* Coercer                                                                 *)
(***************************************************************************)
_to_str(value) == IF value.t = "none" THEN StrV(<<>>) ELSE StrV(PyStr(value))

_to_bool(value) ==
    CASE value.t = "bool" -> value
      [] value.t = "int" -> BoolV(value.n # 0)
      [] value.t = "str" ->
            LET v == Lower(Strip(value.s))
            IN  IF v \in {<<"t", "r", "u", "e">>, <<"y", "e", "s">>, <<"y">>, <<"1">>}
                THEN BoolV(TRUE)
                ELSE IF v \in {<<"f", "a", "l", "s", "e">>, <<"n", "o">>, <<"n">>, <<"0">>}
                     THEN BoolV(FALSE)
                     ELSE BoolV(PyTruthy(value))
      [] OTHER -> BoolV(PyTruthy(value))

Quotes == {"\"", "'"}

\* [f(x) for x in xs if keep(x)] with f = strip, strip quotes and
\* keep = "the stripped text is not empty".
RECURSIVE StripQuoteKeep(_)
StripQuoteKeep(xs) ==
    IF xs = <<>> THEN <<>>
    ELSE (IF Strip(Head(xs)) # <<>>
          THEN <<StrV(StripSet(Strip(Head(xs)), Quotes))>>
          ELSE <<>>) \o StripQuoteKeep(Tail(xs))

_to_str_list(value) ==
    CASE value.t = "none" -> ListV(<<>>)
      [] value.t = "list" ->
            ListV(StripQuoteKeep([i \in DOMAIN value.l |-> PyStr(value.l[i])]))
      [] OTHER ->
            LET raw0 == Strip(PyStr(value))
                raw == IF raw0 # <<>> /\ Head(raw0) = "[" /\ raw0[Len(raw0)] = "]"
                       THEN SubSeq(raw0, 2, Len(raw0) - 1) ELSE raw0
                split == SplitOn(raw, ",")
                parts == [i \in DOMAIN split |-> Strip(split[i])]
            IN  ListV(StripQuoteKeep(parts))

\* No parameter of a registered tool is declared int or float, so the two
\* numeric conversions (and their faults) are not modelled.
_coerce_value(expected, value) ==
    CASE expected = "str" -> _to_str(value)
      [] expected = "bool" -> _to_bool(value)
      [] expected \in {"list", "list[str]"} -> _to_str_list(value)
      [] expected \notin {"str", "bool", "list", "list[str]", "int", "float"} -> value

(***************************************************************************)
(* dict operations, on item sequences in insertion order                   *)
(***************************************************************************)
Item(key, value) == [k |-> key, v |-> value]

Keys(d) == {d[i].k : i \in DOMAIN d}

\* key in d
Has(d, key) == \E i \in DOMAIN d : d[i].k = key

\* d[key]
At(d, key) == d[CHOOSE i \in DOMAIN d : d[i].k = key].v

\* d.get(key)
Get(d, key) == IF Has(d, key) THEN At(d, key) ELSE NoneV

\* d[key] = value: a key already there keeps its position.
Put(d, key, value) ==
    IF Has(d, key)
    THEN [i \in DOMAIN d |-> IF d[i].k = key THEN Item(key, value) ELSE d[i]]
    ELSE Append(d, Item(key, value))

\* d.pop(key), without its result
Pop(d, key) == SelectSeq(d, LAMBDA e : e.k # key)

\* d.update(e)
RECURSIVE Update(_, _)
Update(d, e) ==
    IF e = <<>> THEN d ELSE Update(Put(d, Head(e).k, Head(e).v), Tail(e))

(***************************************************************************)
(* Text used as input values                                               *)
(***************************************************************************)
Rep(c, n) == [i \in 1..n |-> c]

T_ACME == <<"A", "C", "M", "E">>

T_Hi == <<"H", "i">>

T_When == <<"2", "0", "2", "4", "-", "0", "1", "-", "0", "1", " ", "1", "0", ":", "0", "0">>

T_Phone == <<"+", "2", "3", "3", "2", "0", "0", "0", "0", "0", "0", "0", "0">>

T_024 == <<"0", "2", "4">>

T_055 == <<"0", "5", "5">>

T_John == <<"J", "o", "h", "n">>

T_Paul == <<"P", "a", "u", "l">>

T_Smith == <<"S", "m", "i", "t", "h">>

T_yes == <<"Y", "e", "s">>

(***************************************************************************)
(* Override model and the static tables                                    *)
(***************************************************************************)
\* FunctionOverride(...): every table empty unless given.
FunctionOverride ==
    [expected_types |-> <<>>, required |-> {}, optional |-> {}, required_if |-> <<>>,
     defaults |-> <<>>, aliases |-> <<>>, max_lengths |-> <<>>]

ScheduleRule == [param |-> "schedule_time", when |-> <<Item("schedule", BoolV(TRUE))>>]

ContactTypes ==
    <<Item("group_id", "str"), Item("phone", "str"), Item("first_name", "str"),
      Item("last_name", "str"), Item("dob", "str"), Item("email", "str")>>

\* The functions default_overrides gives a non-empty override.
DefaultTools == {"add_contact", "send_bulk_group_sms", "send_quick_bulk_sms",
                 "update_contact", "update_scheduled_sms"}

Tools == DefaultTools \cup {"custom_tool"}

\* inspect.getmembers lists the functions of the module sorted by name.
ToolOrder == <<"add_contact", "custom_tool", "send_bulk_group_sms",
               "send_quick_bulk_sms", "update_contact", "update_scheduled_sms">>

default_overrides ==
    [name \in DefaultTools |->
        CASE name = "send_quick_bulk_sms" ->
                [expected_types |-> <<Item("recipient", "list[str]"), Item("sender_id", "str"),
                                      Item("message", "str"), Item("schedule", "bool"),
                                      Item("schedule_time", "str")>>,
                 required |-> {"recipient", "sender_id", "message"},
                 optional |-> {"schedule", "schedule_time"},
                 required_if |-> <<ScheduleRule>>,
                 defaults |-> <<Item("schedule", BoolV(FALSE))>>,
                 aliases |-> <<Item("recipients", "recipient")>>,
                 max_lengths |-> <<Item("message", 460)>>]
          [] name = "send_bulk_group_sms" ->
                [expected_types |-> <<Item("group_id", "list[str]"), Item("sender_id", "str"),
                                      Item("message", "str"), Item("schedule", "bool"),
                                      Item("schedule_time", "str")>>,
                 required |-> {"group_id", "sender_id", "message"},
                 optional |-> {"schedule", "schedule_time"},
                 required_if |-> <<ScheduleRule>>,
                 defaults |-> <<Item("schedule", BoolV(FALSE))>>,
                 aliases |-> <<>>,
                 max_lengths |-> <<Item("message", 460)>>]
          [] name = "update_scheduled_sms" ->
                [expected_types |-> <<Item("_id", "str"), Item("sender_id", "str"),
                                      Item("schedule_time", "str"), Item("message", "str")>>,
                 required |-> {"_id", "sender_id", "schedule_time"},
                 optional |-> {"message"},
                 required_if |-> <<>>,
                 defaults |-> <<>>,
                 aliases |-> <<>>,
                 max_lengths |-> <<Item("message", 460)>>]
          [] name = "add_contact" ->
                [FunctionOverride EXCEPT
                    !.expected_types = ContactTypes,
                    !.required = {"group_id", "phone"},
                    !.aliases = <<Item("group", "group_id"), Item("phone_number", "phone"),
                                  Item("phoneNumber", "phone")>>]
          [] name = "update_contact" ->
                [FunctionOverride EXCEPT
                    !.expected_types = <<Item("contact_id", "str"), Item("phone", "str"),
                                         Item("first_name", "str"), Item("last_name", "str"),
                                         Item("dob", "str"), Item("email", "str"),
                                         Item("group_id", "str")>>,
                    !.required = {"contact_id", "phone"},
                    !.aliases = <<Item("group", "group_id"), Item("phone_number", "phone"),
                                  Item("phoneNumber", "phone"),
                                  Item("contactId", "contact_id")>>]]

\* FunctionOverride(required=["sender_id"], defaults={"schedule": False}) for
\* a function custom_tool(message: str, **extra): a required name and a
\* default that are not declared parameters, so that both reach the Binding
\* uncoerced.
CustomOverride ==
    [FunctionOverride EXCEPT !.required = {"sender_id"},
                             !.defaults = <<Item("schedule", BoolV(FALSE))>>]

\* The `overrides` register_flex_functions works with: the default table,
\* and the override its caller adds for custom_tool.
SuppliedOverrides ==
    [name \in Tools |->
        IF name \in DefaultTools THEN default_overrides[name] ELSE CustomOverride]

default_aliases ==
    [name \in {"send_quick_bulk_sms", "send_bulk_group_sms"} |->
        IF name = "send_quick_bulk_sms"
        THEN <<Item("recipients", "recipient")>>
        ELSE <<Item("groups", "group_id"), Item("group_ids", "group_id")>>]

\* aliases.get(name, {})
AliasesFor(name) == IF name \in DOMAIN default_aliases THEN default_aliases[name] ELSE <<>>

\* inspect.signature(func).parameters as [name, annotation] in declaration
\* order.  The domain functions are not part of the sources at hand: a
\* registered function declares the parameters its override types, with
\* the matching annotation.
Signature(name) ==
    IF name = "custom_tool"
    THEN <<[name |-> "message", annotation |-> "str"],
           [name |-> "extra", annotation |-> "empty"]>>
    ELSE LET et == default_overrides[name].expected_types
         IN  [i \in DOMAIN et |->
                [name |-> et[i].k,
                 annotation |-> IF et[i].v = "list[str]" THEN "list" ELSE et[i].v]]

_infer_expected_type(param) ==
    CASE param.annotation = "empty" -> "str"
      [] param.annotation \in {"str", "bool", "int", "float"} -> param.annotation
      [] param.annotation = "list" -> "list[str]"
      [] OTHER -> "str"

(***************************************************************************)
(* The wrapper pipeline, stage by stage                                    *)
(***************************************************************************)
\* Envelope: exactly one key, "kwargs", holding a dict.
IsEnvelope(kwargs) ==
    /\ Len(kwargs) = 1
    /\ Has(kwargs, "kwargs")
    /\ Get(kwargs, "kwargs").t = "dict"

\* Mutant: the envelope is handed on as it came.
Unwrap_Never(kwargs) == kwargs

Unwrap(kwargs) == IF IsEnvelope(kwargs) THEN At(kwargs, "kwargs").d ELSE kwargs

\* Mutant: "group" is rewritten to the spelling "groupId", itself a variant.
CanonicalKey_Chained(key) ==
    CASE key \in {"phoneNumber", "phone_number"} -> "phone"
      [] key \in {"group"} -> "groupId"
      [] key \in {"groupId"} -> "group_id"
      [] key \in {"contactId"} -> "contact_id"
      [] key \in {"templateId"} -> "template_id"
      [] key \in {"campaignId"} -> "campaign_id"
      [] OTHER -> key

CanonicalKey(key) ==
    CASE key \in {"phoneNumber", "phone_number"} -> "phone"
      [] key \in {"groupId", "group"} -> "group_id"
      [] key \in {"contactId"} -> "contact_id"
      [] key \in {"templateId"} -> "template_id"
      [] key \in {"campaignId"} -> "campaign_id"
      [] OTHER -> key

\* The loop that collects `normalized`, then kwargs.update(normalized).
RECURSIVE Normalized(_, _, _)
Normalized(kwargs, items, normalized) ==
    IF items = <<>> THEN normalized
    ELSE LET canonical == CanonicalKey(Head(items).k)
         IN  Normalized(kwargs, Tail(items),
                        IF ~Has(kwargs, canonical)
                        THEN Put(normalized, canonical, Head(items).v)
                        ELSE normalized)

NormalizeKeys(kwargs) == Update(kwargs, Normalized(kwargs, kwargs, <<>>))

\* 'name'/'full_name' into first_name/last_name.
ExpandName(kwargs) ==
    LET full_name_value ==
            IF Has(kwargs, "full_name") THEN Get(kwargs, "full_name")
            ELSE IF Has(kwargs, "name") THEN Get(kwargs, "name")
            ELSE NoneV
    IN  IF PyTruthy(full_name_value)
           /\ ~Has(kwargs, "first_name") /\ ~Has(kwargs, "last_name")
        THEN LET parts == SplitWs(Strip(PyStr(full_name_value)))
             IN  IF Len(parts) = 1
                 THEN Put(kwargs, "first_name", StrV(parts[1]))
                 ELSE IF Len(parts) >= 2
                      THEN Put(Put(kwargs, "first_name",
                                   StrV(Join(SubSeq(parts, 1, Len(parts) - 1), <<" ">>))),
                               "last_name", StrV(parts[Len(parts)]))
                      ELSE kwargs
        ELSE kwargs

\* 'contacts' list -> first non-blank element as phone.
FoldContacts(kwargs) ==
    IF Has(kwargs, "contacts") /\ ~Has(kwargs, "phone")
    THEN LET contacts_value == Get(kwargs, "contacts")
             s(i) == Strip(PyStr(contacts_value.l[i]))
         IN  IF contacts_value.t = "list" /\ \E i \in DOMAIN contacts_value.l : s(i) # <<>>
             THEN Put(kwargs, "phone",
                      StrV(s(CHOOSE i \in DOMAIN contacts_value.l :
                                /\ s(i) # <<>>
                                /\ \A j \in 1..(i - 1) : s(j) = <<>>)))
             ELSE kwargs
    ELSE kwargs

\* The try block.  No step raises on the values modelled, so the except
\* branch is never taken.
Normalizer(kwargs) == FoldContacts(ExpandName(NormalizeKeys(kwargs)))

\* Mutant: the alias is moved whether or not the canonical is there.
RECURSIVE ApplyAliases_Overwrite(_, _)
ApplyAliases_Overwrite(aliases, kwargs) ==
    IF aliases = <<>> THEN kwargs
    ELSE LET alias == Head(aliases).k
             canonical == Head(aliases).v
         IN  ApplyAliases_Overwrite(Tail(aliases),
                IF Has(kwargs, alias)
                THEN Put(Pop(kwargs, alias), canonical, At(kwargs, alias))
                ELSE kwargs)

\* for alias, canonical in override.aliases.items(): move when the alias is
\* there and the canonical is not.
RECURSIVE ApplyAliases(_, _)
ApplyAliases(aliases, kwargs) ==
    IF aliases = <<>> THEN kwargs
    ELSE LET alias == Head(aliases).k
             canonical == Head(aliases).v
         IN  ApplyAliases(Tail(aliases),
                IF Has(kwargs, alias) /\ ~Has(kwargs, canonical)
                THEN Put(Pop(kwargs, alias), canonical, At(kwargs, alias))
                ELSE kwargs)

\* bound_args after the defaults and the coerced known parameters.
RECURSIVE CoerceKnown(_, _, _, _)
CoerceKnown(override, sig, kwargs, bound_args) ==
    IF sig = <<>> THEN bound_args
    ELSE LET param == Head(sig)
             expected == IF Has(override.expected_types, param.name)
                         THEN At(override.expected_types, param.name)
                         ELSE _infer_expected_type(param)
         IN  CoerceKnown(override, Tail(sig), kwargs,
                         IF Has(kwargs, param.name)
                         THEN Put(bound_args, param.name,
                                  _coerce_value(expected, At(kwargs, param.name)))
                         ELSE bound_args)

BindKnown(override, sig, kwargs) == CoerceKnown(override, sig, kwargs, override.defaults)

\* for k, v in kwargs.items(): if k not in bound_args: bound_args[k] = v
RECURSIVE PassThrough(_, _)
PassThrough(bound_args, kwargs) ==
    IF kwargs = <<>> THEN bound_args
    ELSE PassThrough(IF ~Has(bound_args, Head(kwargs).k)
                     THEN Put(bound_args, Head(kwargs).k, Head(kwargs).v)
                     ELSE bound_args,
                     Tail(kwargs))

Bind(override, sig, kwargs) == PassThrough(BindKnown(override, sig, kwargs), kwargs)

\* Mutant: only None counts as missing.
IsEmptyValue_NoneOnly(value) == PyEq(value, NoneV)

\* value in (None, "", [], {})
IsEmptyValue(value) ==
    \/ PyEq(value, NoneV)
    \/ PyEq(value, StrV(<<>>))
    \/ PyEq(value, ListV(<<>>))
    \/ PyEq(value, DictV(<<>>))

MissingRequired(override, bound_args) ==
    {req \in override.required : IsEmptyValue(Get(bound_args, req))}

RuleMeets(rule, bound_args) ==
    \A i \in DOMAIN rule.when : PyEq(Get(bound_args, rule.when[i].k), rule.when[i].v)

\* Mutant: the conditional rules are not looked at.
MissingConditional_Ignored(override, bound_args) == {}

MissingConditional(override, bound_args) ==
    {override.required_if[i].param : i \in
        {j \in DOMAIN override.required_if :
            /\ RuleMeets(override.required_if[j], bound_args)
            /\ IsEmptyValue(Get(bound_args, override.required_if[j].param))}}

\* The names a missing-parameter error can list, in the order of Python's
\* str comparison (by code point: "_" sorts before the lower-case letters).
NameOrder == <<"_id", "contact_id", "group_id", "message", "phone", "recipient",
               "schedule_time", "sender_id">>

\* sorted(set(missing))
SortedNames(names) == SelectSeq(NameOrder, LAMBDA nm : nm \in names)

\* sep.join(names) as the pieces of the text.
RECURSIVE JoinText(_, _)
JoinText(names, sep) ==
    IF names = <<>> THEN <<>>
    ELSE IF Len(names) = 1 THEN names
    ELSE <<names[1], sep>> \o JoinText(Tail(names), sep)

\* str(n) inside an f-string.
RECURSIVE DecimalText(_)
DecimalText(n) ==
    LET digit(k) == DigitChars[k + 1]
    IN  IF n < 0 THEN "-" \o DecimalText(0 - n)
        ELSE IF n < 10 THEN digit(n)
        ELSE DecimalText(n \div 10) \o digit(n % 10)

\* What a wrapper call ends in.  An error text is the sequence of its
\* pieces: the literal parts of the f-string and the formatted fields.
NoOutcome == [kind |-> "none", error |-> <<>>, binding |-> <<>>]

StructuredError(pieces) == [kind |-> "error", error |-> pieces, binding |-> <<>>]

Invoked(bound_args) == [kind |-> "invoked", error |-> <<>>, binding |-> bound_args]

MissingError(names) ==
    StructuredError(<<"Missing required parameter(s): ">> \o JoinText(SortedNames(names), ", "))

TooLongError(field_name, length, max_len) ==
    StructuredError(<<field_name, " is too long (", DecimalText(length), " characters). ",
                      "Maximum allowed is ", DecimalText(max_len),
                      ". Please shorten it and try again.">>)

\* Mutant: a value of exactly the limit counts as too long.
TooLong_Inclusive(max_lengths, bound_args) ==
    {i \in DOMAIN max_lengths :
        LET value == Get(bound_args, max_lengths[i].k)
        IN  value.t = "str" /\ Len(value.s) >= max_lengths[i].v}

TooLong(max_lengths, bound_args) ==
    {i \in DOMAIN max_lengths :
        LET value == Get(bound_args, max_lengths[i].k)
        IN  value.t = "str" /\ Len(value.s) > max_lengths[i].v}

CheckLengths(override, bound_args) ==
    LET bad == TooLong(override.max_lengths, bound_args)
    IN  IF bad # {}
        THEN LET i == CHOOSE j \in bad : \A m \in bad : j <= m
                 value == Get(bound_args, override.max_lengths[i].k)
             IN  TooLongError(override.max_lengths[i].k, Len(value.s),
                              override.max_lengths[i].v)
        ELSE Invoked(bound_args)

\* Mutant: the plain check returns its error before the rules are looked at.
Validate_ShortCircuit(override, bound_args) ==
    IF MissingRequired(override, bound_args) # {}
    THEN MissingError(MissingRequired(override, bound_args))
    ELSE IF MissingConditional(override, bound_args) # {}
         THEN MissingError(MissingConditional(override, bound_args))
         ELSE CheckLengths(override, bound_args)

Validate(override, bound_args) ==
    LET missing == MissingRequired(override, bound_args)
                      \cup MissingConditional(override, bound_args)
    IN  IF missing # {} THEN MissingError(missing) ELSE CheckLengths(override, bound_args)

\* One wrapper call run alone, from the arguments as received.
WrapperOutcome(override, sig, raw) ==
    Validate(override,
             Bind(override, sig, ApplyAliases(override.aliases, Normalizer(Unwrap(raw)))))

\* ov.aliases = {**aliases.get(name, {}), **ov.aliases}
MergeAliases(global, own) == Update(global, own)

(***************************************************************************)
(* Inputs: the argument mappings a host hands to the wrappers              *)
(***************************************************************************)
MaxCalls == 2

Calls == 1..MaxCalls

Opt(key, values) == [k |-> key, vs |-> values]

\* Every mapping that holds, in the order of `opts`, any of the keys with
\* one of its values.
RECURSIVE Choices(_)
Choices(opts) ==
    IF opts = <<>> THEN {<<>>}
    ELSE LET first == {<<>>} \cup {<<Item(Head(opts).k, v)>> : v \in Head(opts).vs}
         IN  {f \o r : f \in first, r \in Choices(Tail(opts))}

Reverse(s) == [i \in DOMAIN s |-> s[Len(s) + 1 - i]]

MessageLimit(name) == At(default_overrides[name].max_lengths, "message")

Options(name) ==
    CASE name = "send_quick_bulk_sms" ->
            <<Opt("recipients", {ListV(<<StrV(T_Phone)>>)}),
              Opt("recipient", {ListV(<<StrV(T_024)>>), ListV(<<>>)}),
              Opt("sender_id", {StrV(T_ACME), StrV(<<>>), NoneV}),
              Opt("message", {StrV(T_Hi), StrV(Rep("x", MessageLimit(name))),
                              StrV(Rep("x", MessageLimit(name) + 1))}),
              Opt("schedule", {BoolV(TRUE), BoolV(FALSE), StrV(T_yes), IntV(0),
                               StrV(<<" ", "n", "O">>)}),
              Opt("schedule_time", {StrV(T_When), StrV(<<>>)})>>
      [] name = "send_bulk_group_sms" ->
            <<Opt("groups", {ListV(<<StrV(<<"g", "1">>)>>)}),
              Opt("group_ids", {StrV(<<"g", "2", ",", "g", "3">>)}),
              Opt("group", {StrV(<<"g", "4">>)}),
              Opt("group_id", {ListV(<<StrV(<<"g", "5">>)>>)}),
              Opt("sender_id", {StrV(T_ACME)}),
              Opt("message", {StrV(T_Hi), StrV(Rep("x", MessageLimit(name) + 1))}),
              Opt("schedule", {BoolV(TRUE)}),
              Opt("schedule_time", {StrV(T_When)})>>
      [] name = "update_scheduled_sms" ->
            <<Opt("_id", {IntV(7), StrV(<<>>)}),
              Opt("sender_id", {StrV(T_ACME)}),
              Opt("schedule_time", {StrV(T_When), DictV(<<>>)}),
              Opt("message", {StrV(Rep("x", MessageLimit(name))),
                              StrV(Rep("x", MessageLimit(name) + 2))})>>
      [] name = "add_contact" ->
            <<Opt("phone_number", {StrV(T_024)}),
              Opt("phoneNumber", {StrV(T_055)}),
              Opt("phone", {StrV(T_Phone), StrV(<<>>)}),
              Opt("group", {StrV(<<"g", "1">>)}),
              Opt("group_id", {StrV(<<"g", "2">>)}),
              Opt("full_name", {StrV(T_John), StrV(T_John \o <<" ">> \o T_Paul \o <<" ", " ">> \o T_Smith),
                                StrV(<<" ">>)}),
              Opt("name", {StrV(T_Paul)}),
              Opt("first_name", {StrV(T_Smith)}),
              Opt("contacts", {ListV(<<StrV(<<" ">>), StrV(<<" ">> \o T_024 \o <<" ">>)>>)})>>
      [] name = "update_contact" ->
            <<Opt("contactId", {StrV(<<"c", "1">>)}),
              Opt("contact_id", {StrV(<<"c", "2">>)}),
              Opt("phone", {StrV(T_Phone)}),
              Opt("groupId", {IntV(12)}),
              Opt("templateId", {StrV(<<"t", "1">>)}),
              Opt("template_id", {StrV(<<"t", "2">>)}),
              Opt("campaignId", {StrV(<<"k", "1">>)}),
              Opt("kwargs", {DictV(<<Item("phone", StrV(T_024))>>)})>>
      [] name = "custom_tool" ->
            <<Opt("message", {StrV(T_Hi)}),
              Opt("sender_id", {StrV(T_ACME), NoneV, DictV(<<>>), ListV(<<>>), IntV(0),
                                BoolV(FALSE)}),
              Opt("schedule", {BoolV(TRUE), StrV(T_yes)}),
              Opt("note", {IntV(5)})>>

Inputs(name) ==
    LET forward == Choices(Options(name)) IN forward \cup {Reverse(m) : m \in forward}

\* The inputs of the calls that run interleaved.
SmallInputs(name) ==
    CASE name = "add_contact" ->
            {<<Item("phone_number", StrV(T_024)), Item("group", StrV(<<"g", "1">>))>>,
             <<Item("phone", StrV(T_Phone))>>}
      [] name = "send_quick_bulk_sms" ->
            {<<Item("recipients", ListV(<<StrV(T_Phone)>>)), Item("sender_id", StrV(T_ACME)),
               Item("message", StrV(T_Hi))>>,
             <<Item("recipient", ListV(<<StrV(T_024)>>)), Item("sender_id", StrV(T_ACME)),
               Item("message", StrV(T_Hi)), Item("schedule", StrV(T_yes))>>}
      [] OTHER -> {}

(***************************************************************************)
(* State                                                                   *)
(***************************************************************************)
VARIABLES
    overrides,     \* the FunctionOverride object of each tool
    registered,    \* how many functions register_flex_functions has wrapped
    calls,         \* the wrapper calls: position and local variables
    chat           \* chat_with_agent: position and local variables

vars == <<overrides, registered, calls, chat>>

\* pc: where the call is.  raw: kwargs as received.  kwargs, bound_args:
\* the wrapper's locals.  caller: the mapping object the host holds (the
\* envelope's inner mapping is that very object, `shared`); given: what it
\* held when the call was made.
IdleCall ==
    [pc |-> "idle", tool |-> "", raw |-> <<>>, kwargs |-> <<>>, bound_args |-> <<>>,
     outcome |-> NoOutcome, caller |-> <<>>, given |-> <<>>, shared |-> FALSE]

\* An exception: its class and its text, str(e).
NoException == [type |-> "", text |-> ""]

\* messages = [{"role": "system", "content": SYSTEM_PROMPT}]
Message(role, content) == [role |-> role, content |-> content]

FreshMessages == <<Message("system", <<"SYSTEM_PROMPT">>)>>

\* The locals a turn starts with.
FreshTurn ==
    [full_response_content |-> <<>>, tool_calls_made |-> <<>>, tool_results |-> <<>>,
     reasoning_steps |-> <<>>, tool_errors |-> <<>>]

\* pc: "input" at input(), "stream" inside the inner try, "raising" while an
\* exception looks for its except clause, "ended" after the loop.  where: the
\* innermost try the exception was raised in.  out: what the loop printed
\* last.  events: the events of the stream consumed in this turn.
StartChat ==
    [pc |-> "input", messages |-> FreshMessages, user_input |-> <<>>, turn |-> FreshTurn,
     exc |-> NoException, where |-> "", out |-> <<>>, events |-> 0]

Init ==
    /\ overrides = SuppliedOverrides
    /\ registered = 0
    /\ calls = [c \in Calls |-> IdleCall]
    /\ chat = StartChat

\* One turn of the loop of register_flex_functions.
Register ==
    /\ registered < Len(ToolOrder)
    /\ LET name == ToolOrder[registered + 1]
       IN  overrides' = [overrides EXCEPT
                ![name].aliases = MergeAliases(AliasesFor(name), @)]
    /\ registered' = registered + 1
    /\ UNCHANGED <<calls, chat>>

\* The host calls the wrapper of a tool with a mapping m, of the wide or of
\* the small input set, spread as keyword arguments (a fresh dict) or under
\* the single key "kwargs".
Received(m, enveloped) == IF enveloped THEN <<Item("kwargs", DictV(m))>> ELSE m

Call(c, wide) ==
    /\ registered = Len(ToolOrder)
    /\ calls[c].pc = "idle"
    /\ \E name \in Tools : \E m \in (IF wide THEN Inputs(name) ELSE SmallInputs(name)) : \E enveloped \in BOOLEAN :
          calls' = [calls EXCEPT ![c] =
                [IdleCall EXCEPT !.pc = "called", !.tool = name,
                                 !.raw = Received(m, enveloped),
                                 !.caller = m, !.given = m]]
    /\ UNCHANGED <<overrides, registered, chat>>

UnwrapStep(c) ==
    /\ calls[c].pc = "called"
    /\ calls' = [calls EXCEPT ![c].pc = "unwrapped",
                              ![c].kwargs = Unwrap(calls[c].raw),
                              ![c].shared = IsEnvelope(calls[c].raw)]
    /\ UNCHANGED <<overrides, registered, chat>>

\* kwargs is changed in place: when it is the caller's object, the caller
\* sees the change.
NormalizeStep(c) ==
    /\ calls[c].pc = "unwrapped"
    /\ LET kw == Normalizer(calls[c].kwargs)
       IN  calls' = [calls EXCEPT ![c].pc = "normalized",
                                  ![c].kwargs = kw,
                                  ![c].caller = IF calls[c].shared THEN kw ELSE @]
    /\ UNCHANGED <<overrides, registered, chat>>

AliasStep(c) ==
    /\ calls[c].pc = "normalized"
    /\ LET kw == ApplyAliases(overrides[calls[c].tool].aliases, calls[c].kwargs)
       IN  calls' = [calls EXCEPT ![c].pc = "aliased",
                                  ![c].kwargs = kw,
                                  ![c].caller = IF calls[c].shared THEN kw ELSE @]
    /\ UNCHANGED <<overrides, registered, chat>>

\* Mutant: bound_args is one dict kept by the wrapper, shared by its calls.
BindStep_SharedBinding(c) ==
    /\ calls[c].pc = "aliased"
    /\ LET b == Bind(overrides[calls[c].tool], Signature(calls[c].tool), calls[c].kwargs)
       IN  calls' = [d \in Calls |->
                IF d = c THEN [calls[d] EXCEPT !.pc = "bound", !.bound_args = b]
                ELSE IF calls[d].tool = calls[c].tool /\ calls[d].pc = "bound"
                     THEN [calls[d] EXCEPT !.bound_args = b]
                     ELSE calls[d]]
    /\ UNCHANGED <<overrides, registered, chat>>

BindStep(c) ==
    /\ calls[c].pc = "aliased"
    /\ calls' = [calls EXCEPT ![c].pc = "bound",
                              ![c].bound_args = Bind(overrides[calls[c].tool],
                                                     Signature(calls[c].tool),
                                                     calls[c].kwargs)]
    /\ UNCHANGED <<overrides, registered, chat>>

\* The checks, then return {"error": ...} or func(**bound_args).
ValidateStep(c) ==
    /\ calls[c].pc = "bound"
    /\ calls' = [calls EXCEPT ![c].pc = "done",
                              ![c].outcome = Validate(overrides[calls[c].tool],
                                                      calls[c].bound_args)]
    /\ UNCHANGED <<overrides, registered, chat>>

\* The call has returned; its locals are gone.
Return(c) ==
    /\ calls[c].pc = "done"
    /\ calls' = [calls EXCEPT ![c] = IdleCall]
    /\ UNCHANGED <<overrides, registered, chat>>

Steps(c) ==
    \/ UnwrapStep(c)
    \/ NormalizeStep(c)
    \/ AliasStep(c)
    \/ BindStep(c)
    \/ ValidateStep(c)
    \/ Return(c)

\* One call at a time, over the wide input set.
Next ==
    \/ Register
    \/ Call(1, TRUE)
    \/ Steps(1)

Spec == Init /\ [][Next]_vars

\* Calls from several host threads, their steps interleaved.
NextConc ==
    \/ Register
    \/ \E c \in Calls : Call(c, FALSE)
    \/ \E c \in Calls : Steps(c)

SpecConc == Init /\ [][NextConc]_vars

(***************************************************************************)
(* The interactive loop, chat_with_agent (src/mnotify_agent.py)            *)
(***************************************************************************)
MaxEvents == 2

MaxTranscript == 6

\* What the user types at the prompt.
UserTexts ==
    {<<" ", "Q", "u", "i", "t">>, <<"e", "x", "i", "t">>, <<"B", "Y", "E", " ">>,
     <<"h", "e", "l", "p">>, <<"H", "i", "s", "t", "o", "r", "y">>,
     <<"t", "o", "o", "l", "s">>, <<"c", "l", "e", "a", "r">>, <<" ", " ">>,
     T_Hi}

QuitWords == {<<"q", "u", "i", "t">>, <<"e", "x", "i", "t">>, <<"b", "y", "e">>}

HelpWords == {<<"h", "e", "l", "p">>, <<"c", "o", "m", "m", "a", "n", "d", "s">>}

\* The classes of the exceptions raised in the loop, and issubclass(., Exception).
ExceptionTypes == {"ValueError", "RuntimeError", "EOFError"}

IsException(type) == type \in ExceptionTypes

KeyboardInterrupt == [type |-> "KeyboardInterrupt", text |-> ""]

\* What agent.run, or the next event of its stream, may raise: a fault of the
\* model provider or of the host library, or the user's Ctrl-C.
StreamFaults ==
    {[type |-> "ValueError", text |-> "invalid response"], KeyboardInterrupt}

\* What a domain function raises when the wrapper has invoked it.
DomainFault == [type |-> "RuntimeError", text |-> "request failed"]

\* event.content of a RunResponseContent event.
Contents == {<<"O", "K">>, <<" ">>}

\* The events that do not come from a tool run.
PlainEvents ==
    {[event |-> "RunResponseContent", content |-> c, tool |-> "", result |-> <<>>] :
        c \in Contents}
    \cup {[event |-> "ToolCallStarted", content |-> <<>>, tool |-> "add_contact",
           result |-> <<>>],
          [event |-> "ReasoningStep", content |-> <<"s", "t", "e", "p">>, tool |-> "",
           result |-> <<>>],
          [event |-> "ToolCallError", content |-> <<>>, tool |-> "add_contact",
           result |-> <<>>],
          [event |-> "RunCompleted", content |-> <<>>, tool |-> "", result |-> <<>>]}

\* event.tool_call_result: None is the empty sequence.
NoResult == <<>>

DomainResult == <<"status: success">>

ToolCallCompleted(name, result) ==
    [event |-> "ToolCallCompleted", content |-> <<>>, tool |-> name, result |-> result]

\* The body of `for event in response_stream`.
OnEvent(turn, ev) ==
    CASE ev.event = "RunResponseContent" ->
            [turn EXCEPT !.full_response_content = @ \o ev.content]
      [] ev.event = "ToolCallStarted" ->
            [turn EXCEPT !.tool_calls_made = Append(@, ev.tool)]
      [] ev.event = "ReasoningStep" ->
            [turn EXCEPT !.reasoning_steps = Append(@, ev.content)]
      [] ev.event = "ToolCallCompleted" ->
            IF ev.result # NoResult
            THEN [turn EXCEPT !.tool_results =
                        Append(@, [tool |-> ev.tool, result |-> ev.result])]
            ELSE [turn EXCEPT !.tool_errors = Append(@, ev.tool)]
      [] ev.event = "ToolCallError" ->
            [turn EXCEPT !.tool_errors = Append(@, ev.tool)]
      [] OTHER -> turn

\* raise: the exception leaves the try it was raised in.
Raise(exc, where) ==
    chat' = [chat EXCEPT !.pc = "raising", !.exc = exc, !.where = where]

ChatRuns == registered = Len(ToolOrder) /\ chat.pc # "ended"

\* user_input = input("You: ").strip(), then the words that end the loop.
Quit ==
    /\ ChatRuns /\ chat.pc = "input"
    /\ \E text \in UserTexts :
          /\ Lower(Strip(text)) \in QuitWords
          /\ chat' = [chat EXCEPT !.pc = "ended", !.user_input = Strip(text),
                                  !.exc = NoException, !.out = <<"Goodbye!">>]
    /\ UNCHANGED <<overrides, registered, calls>>

\* help, commands, history, tools: print and continue.
Command ==
    /\ ChatRuns /\ chat.pc = "input"
    /\ \E text \in UserTexts :
          /\ Lower(Strip(text)) \in HelpWords \cup {<<"h", "i", "s", "t", "o", "r", "y">>,
                                                   <<"t", "o", "o", "l", "s">>}
          /\ chat' = [chat EXCEPT !.user_input = Strip(text), !.exc = NoException,
                                  !.out = <<"Command: ">> \o Lower(Strip(text))]
    /\ UNCHANGED <<overrides, registered, calls>>

Clear ==
    /\ ChatRuns /\ chat.pc = "input"
    /\ \E text \in UserTexts :
          /\ Lower(Strip(text)) = <<"c", "l", "e", "a", "r">>
          /\ chat' = [chat EXCEPT !.user_input = Strip(text), !.exc = NoException,
                                  !.messages = FreshMessages,
                                  !.out = <<"Context cleared.\n">>]
    /\ UNCHANGED <<overrides, registered, calls>>

\* if not user_input: continue
Blank ==
    /\ ChatRuns /\ chat.pc = "input"
    /\ \E text \in UserTexts :
          /\ Strip(text) = <<>>
          /\ chat' = [chat EXCEPT !.user_input = <<>>, !.exc = NoException, !.out = <<>>]
    /\ UNCHANGED <<overrides, registered, calls>>

\* Any other text: the user's message is appended and the turn begins.
Ask ==
    /\ ChatRuns /\ chat.pc = "input"
    /\ Len(chat.messages) + 3 <= MaxTranscript
    /\ \E text \in UserTexts :
          /\ Strip(text) # <<>>
          /\ Lower(Strip(text)) \notin
                QuitWords \cup HelpWords \cup {<<"h", "i", "s", "t", "o", "r", "y">>,
                                               <<"t", "o", "o", "l", "s">>,
                                               <<"c", "l", "e", "a", "r">>}
          /\ chat' = [chat EXCEPT !.pc = "stream", !.user_input = Strip(text),
                                  !.messages = Append(@, Message("user", Strip(text))),
                                  !.turn = FreshTurn, !.exc = NoException,
                                  !.out = <<"Agent: ">>, !.events = 0]
    /\ UNCHANGED <<overrides, registered, calls>>

\* input() itself raises: end of input, or Ctrl-C at the prompt.
InputRaises ==
    /\ ChatRuns /\ chat.pc = "input"
    /\ \E exc \in {[type |-> "EOFError", text |-> "EOF when reading a line"],
                   KeyboardInterrupt} :
          Raise(exc, "outer")
    /\ UNCHANGED <<overrides, registered, calls>>

\* The stream yields an event that is not the end of a tool run.
StreamEvent ==
    /\ ChatRuns /\ chat.pc = "stream"
    /\ chat.events < MaxEvents
    /\ \E ev \in PlainEvents :
          chat' = [chat EXCEPT !.turn = OnEvent(@, ev), !.events = @ + 1]
    /\ UNCHANGED <<overrides, registered, calls>>

\* agent.run, or the next event of the stream, raises.
StreamRaises ==
    /\ ChatRuns /\ chat.pc = "stream"
    /\ \E exc \in StreamFaults : Raise(exc, "inner")
    /\ UNCHANGED <<overrides, registered, calls>>

\* The host library runs a tool wrapper while the stream is consumed.  A
\* Structured Error and a domain function's result come back as the result
\* of a ToolCallCompleted event (the function may return None).
ToolReturns ==
    /\ ChatRuns /\ chat.pc = "stream"
    /\ chat.events < MaxEvents
    /\ \E name \in Tools : \E m \in SmallInputs(name) :
          LET outcome == WrapperOutcome(overrides[name], Signature(name), m)
          IN  \E result \in (IF outcome.kind = "error" THEN {outcome.error}
                             ELSE {DomainResult, NoResult}) :
                 chat' = [chat EXCEPT
                            !.turn = OnEvent(@, ToolCallCompleted(name, result)),
                            !.events = @ + 1]
    /\ UNCHANGED <<overrides, registered, calls>>

\* The domain function the wrapper invokes raises, the wrapper lets the
\* fault through (return func(**bound_args)), and so does the host library.
ToolRaises ==
    /\ ChatRuns /\ chat.pc = "stream"
    /\ \E name \in Tools : \E m \in SmallInputs(name) :
          /\ WrapperOutcome(overrides[name], Signature(name), m).kind = "invoked"
          /\ Raise([DomainFault EXCEPT !.text = name \o ": " \o @], "inner")
    /\ UNCHANGED <<overrides, registered, calls>>

\* cache.get_memory_lines_and_reset() raises.
CacheRaises ==
    /\ ChatRuns /\ chat.pc = "stream"
    /\ Raise([type |-> "RuntimeError", text |-> "cache"], "inner")
    /\ UNCHANGED <<overrides, registered, calls>>

\* The reply the end of the stream appends.
Reply(turn) ==
    IF Strip(turn.full_response_content) # <<>>
    THEN Message("assistant", turn.full_response_content)
    ELSE IF turn.tool_calls_made # <<>>
         THEN Message("assistant", <<"I attempted to process your request but I didn't get a response.">>)
         ELSE Message("assistant", <<"I'm not sure how to help with that request.">>)

\* The stream is exhausted: results indexed (faults of the cache swallowed),
\* breadcrumbs if the cache has any, then the reply.
\* The locals of the turn are not read again before the next turn sets them:
\* they are shown as already reset.
StreamEnds ==
    /\ ChatRuns /\ chat.pc = "stream"
    /\ \E memory_lines \in {<<>>, <<"breadcrumb">>} :
          chat' = [chat EXCEPT
                    !.pc = "input",
                    !.messages =
                        Append(IF memory_lines # <<>>
                               THEN Append(@, Message("assistant", memory_lines))
                               ELSE @,
                               Reply(chat.turn)),
                    !.turn = FreshTurn, !.events = 0,
                    !.out = <<"\n">>]
    /\ UNCHANGED <<overrides, registered, calls>>

\* Mutant: the inner try has no except clause of its own; the fault goes to
\* the outer clauses and from there out of the loop.
ExceptStreaming_Uncaught ==
    /\ chat.pc = "raising" /\ chat.where = "inner" /\ IsException(chat.exc.type)
    /\ chat' = [chat EXCEPT !.pc = "ended", !.out = <<"Traceback">>]
    /\ UNCHANGED <<overrides, registered, calls>>

\* except Exception as e, of the inner try.
ExceptStreaming ==
    /\ chat.pc = "raising" /\ chat.where = "inner" /\ IsException(chat.exc.type)
    /\ chat' = [chat EXCEPT
                  !.pc = "input",
                  !.messages = Append(@, Message("assistant",
                                    <<"Sorry, I encountered an error: ", chat.exc.text>>)),
                  !.turn = FreshTurn, !.events = 0,
                  !.out = <<"Streaming error: ", chat.exc.text>>]
    /\ UNCHANGED <<overrides, registered, calls>>

\* except KeyboardInterrupt, of the outer try: break.
ExceptKeyboardInterrupt ==
    /\ chat.pc = "raising" /\ chat.exc.type = "KeyboardInterrupt"
    /\ chat' = [chat EXCEPT !.pc = "ended", !.out = <<"\nGoodbye!">>]
    /\ UNCHANGED <<overrides, registered, calls>>

\* except Exception as e, of the outer try.
ExceptOuter ==
    /\ chat.pc = "raising" /\ chat.where = "outer" /\ IsException(chat.exc.type)
    /\ chat' = [chat EXCEPT
                  !.pc = "input",
                  !.out = <<"Sorry, I encountered an error: ", chat.exc.text,
                            "Please try again.\n">>]
    /\ UNCHANGED <<overrides, registered, calls>>

NextChat ==
    \/ Register
    \/ Quit
    \/ Command
    \/ Clear
    \/ Blank
    \/ Ask
    \/ InputRaises
    \/ StreamEvent
    \/ StreamRaises
    \/ ToolReturns
    \/ ToolRaises
    \/ CacheRaises
    \/ StreamEnds
    \/ ExceptStreaming
    \/ ExceptKeyboardInterrupt
    \/ ExceptOuter

\* A raised exception reaches its except clause: the loop is sequential code.
SpecChat ==
    /\ Init
    /\ [][NextChat]_vars
    /\ WF_vars(ExceptStreaming)
    /\ WF_vars(ExceptKeyboardInterrupt)
    /\ WF_vars(ExceptOuter)

(***************************************************************************)
(* Vocabulary of the properties                                            *)
(***************************************************************************)
Done(c) == calls[c].pc = "done"

\* The override of the tool the call is for.
Ov(c) == overrides[calls[c].tool]

\* None, "", [] and {}.
Empties == {NoneV, StrV(<<>>), ListV(<<>>), DictV(<<>>)}

\* The name is bound to nothing or to an empty value.
Lacks(bound_args, name) ==
    \A i \in DOMAIN bound_args : bound_args[i].k = name => bound_args[i].v \in Empties

LacksRequired(c) == {r \in Ov(c).required : Lacks(calls[c].bound_args, r)}

RuleHolds(rule, bound_args) ==
    \A i \in DOMAIN rule.when :
        \E j \in DOMAIN bound_args :
            bound_args[j].k = rule.when[i].k /\ bound_args[j].v = rule.when[i].v

LacksConditional(c) ==
    {nm \in {Ov(c).required_if[i].param : i \in DOMAIN Ov(c).required_if} :
        \E i \in DOMAIN Ov(c).required_if :
            /\ Ov(c).required_if[i].param = nm
            /\ RuleHolds(Ov(c).required_if[i], calls[c].bound_args)
            /\ Lacks(calls[c].bound_args, nm)}

\* The error text has the piece.
Mentions(outcome, piece) ==
    outcome.kind = "error" /\ \E i \in DOMAIN outcome.error : outcome.error[i] = piece

IsMissingError(outcome) == Mentions(outcome, "Missing required parameter(s): ")

IsLengthError(outcome) == Mentions(outcome, " is too long (")

\* The kind a declared parameter is coerced to.
KindOf(name, param) ==
    LET et == SuppliedOverrides[name].expected_types
        sig == Signature(name)
    IN  IF Has(et, param) THEN At(et, param)
        ELSE _infer_expected_type(sig[CHOOSE i \in DOMAIN sig : sig[i].name = param])

Declared(name, param) == \E i \in DOMAIN Signature(name) : Signature(name)[i].name = param

(***************************************************************************)
(* C1  A required name that is bound to nothing, None, "", [] or {} makes  *)
(* the wrapper return a Structured Error that names it, and the domain     *)
(* function is not invoked.                                                *)
(***************************************************************************)
C1_RequiredEnforced ==
    \A c \in Calls : Done(c) =>
        \A r \in LacksRequired(c) :
            /\ Mentions(calls[c].outcome, r)
            /\ calls[c].outcome.kind # "invoked"

\* A required name that is not a declared parameter reaches the check as the
\* empty mapping the caller gave, and the call is refused.
C1_Witness ==
    /\ Done(1)
    /\ calls[1].tool = "custom_tool"
    /\ Has(calls[1].bound_args, "sender_id")
    /\ At(calls[1].bound_args, "sender_id") = DictV(<<>>)
    /\ Mentions(calls[1].outcome, "sender_id")

(***************************************************************************)
(* C2  With the rule {param: schedule_time, when: {schedule: true}} and    *)
(* the plain required names present: bound schedule false is accepted      *)
(* without schedule_time; bound schedule true is refused naming            *)
(* schedule_time exactly when schedule_time is absent or empty, and        *)
(* accepted otherwise.  The rule reads the coerced Binding.                *)
(***************************************************************************)
HasScheduleRule(c) ==
    \E i \in DOMAIN Ov(c).required_if : Ov(c).required_if[i] = ScheduleRule

BoundSchedule(c) == Get(calls[c].bound_args, "schedule")

\* "accepted" read as in the claim: the domain function is invoked.
C2_AsClaimed ==
    \A c \in Calls : (Done(c) /\ HasScheduleRule(c) /\ LacksRequired(c) = {}) =>
        /\ BoundSchedule(c) = BoolV(FALSE) => calls[c].outcome.kind = "invoked"
        /\ BoundSchedule(c) = BoolV(TRUE) =>
              /\ Mentions(calls[c].outcome, "schedule_time")
                    <=> Lacks(calls[c].bound_args, "schedule_time")
              /\ ~Lacks(calls[c].bound_args, "schedule_time")
                    => calls[c].outcome.kind = "invoked"

\* The message within its limit.
MessageFits(c) ==
    \A i \in DOMAIN Ov(c).max_lengths :
        LET value == Get(calls[c].bound_args, Ov(c).max_lengths[i].k)
        IN  value.t = "str" => Len(value.s) <= Ov(c).max_lengths[i].v

\* C2 as amended: the same, for calls whose length-limited fields are within
\* their limits; a call that passes the rule and has a longer message is
\* refused by the length check, not by the rule.
C2_ScheduleRule ==
    \A c \in Calls : (Done(c) /\ HasScheduleRule(c) /\ LacksRequired(c) = {}) =>
        /\ BoundSchedule(c) \in {BoolV(TRUE), BoolV(FALSE)}
        /\ (BoundSchedule(c) = BoolV(FALSE) /\ MessageFits(c))
              => calls[c].outcome.kind = "invoked"
        /\ BoundSchedule(c) = BoolV(FALSE) => ~IsMissingError(calls[c].outcome)
        /\ BoundSchedule(c) = BoolV(TRUE) =>
              /\ Mentions(calls[c].outcome, "schedule_time")
                    <=> Lacks(calls[c].bound_args, "schedule_time")
              /\ (~Lacks(calls[c].bound_args, "schedule_time") /\ MessageFits(c))
                    => calls[c].outcome.kind = "invoked"

\* The caller wrote schedule as the text "Yes": the rule applies to the
\* coerced value and the call is refused for want of schedule_time.
C2_Witness ==
    /\ Done(1)
    /\ calls[1].tool = "send_quick_bulk_sms"
    /\ LacksRequired(1) = {}
    /\ Get(calls[1].kwargs, "schedule") = StrV(T_yes)
    /\ BoundSchedule(1) = BoolV(TRUE)
    /\ ~Has(calls[1].bound_args, "schedule_time")
    /\ Mentions(calls[1].outcome, "schedule_time")

(***************************************************************************)
(* C3  When the required checks pass, a message of exactly the limit is     *)
(* accepted and the domain function invoked; a longer one is refused with  *)
(* an error that holds the field name, the actual length and the limit.    *)
(* No length error is reported while a required name is missing.           *)
(***************************************************************************)
C3_LengthBoundary ==
    \A c \in Calls : Done(c) =>
        \A i \in DOMAIN Ov(c).max_lengths :
            LET field == Ov(c).max_lengths[i].k
                limit == Ov(c).max_lengths[i].v
                value == Get(calls[c].bound_args, field)
                passed == LacksRequired(c) \cup LacksConditional(c) = {}
            IN  /\ (passed /\ value.t = "str" /\ Len(value.s) = limit)
                      => calls[c].outcome.kind = "invoked"
                /\ (passed /\ value.t = "str" /\ Len(value.s) > limit)
                      => /\ calls[c].outcome.kind = "error"
                         /\ Mentions(calls[c].outcome, field)
                         /\ Mentions(calls[c].outcome, DecimalText(Len(value.s)))
                         /\ Mentions(calls[c].outcome, DecimalText(limit))
                         /\ Len(value.s) = 461 =>
                               Mentions(calls[c].outcome, "461")
                                  /\ Mentions(calls[c].outcome, "460")
                /\ ~passed => ~IsLengthError(calls[c].outcome)

\* A message one character over the limit, everything required present.
C3_Witness ==
    /\ Done(1)
    /\ calls[1].tool = "send_quick_bulk_sms"
    /\ LacksRequired(1) \cup LacksConditional(1) = {}
    /\ Len(Get(calls[1].bound_args, "message").s) = 461
    /\ IsLengthError(calls[1].outcome)

(***************************************************************************)
(* C4  Names missing from the plain check and from the conditional check   *)
(* are reported in one error: every missing name, once, in sorted order.   *)
(***************************************************************************)
\* The names an error text lists: every second piece after the heading.
Listed(outcome) == [i \in 1..(Len(outcome.error) \div 2) |-> outcome.error[2 * i]]

Rank(nm) == CHOOSE i \in DOMAIN NameOrder : NameOrder[i] = nm

C4_OneCombinedError ==
    \A c \in Calls : (Done(c) /\ LacksRequired(c) # {} /\ LacksConditional(c) # {}) =>
        LET names == Listed(calls[c].outcome)
        IN  /\ IsMissingError(calls[c].outcome)
            /\ calls[c].outcome.error[1] = "Missing required parameter(s): "
            /\ {names[i] : i \in DOMAIN names} = LacksRequired(c) \cup LacksConditional(c)
            /\ \A i, j \in DOMAIN names : i < j => Rank(names[i]) < Rank(names[j])
            /\ \A i \in DOMAIN calls[c].outcome.error :
                  (i > 1 /\ i % 2 = 1) => calls[c].outcome.error[i] = ", "

\* sender_id missing from the plain check, schedule_time from the rule.
C4_Witness ==
    /\ Done(1)
    /\ LacksRequired(1) = {"sender_id"}
    /\ LacksConditional(1) = {"schedule_time"}
    /\ calls[1].outcome.error =
          <<"Missing required parameter(s): ", "schedule_time", ", ", "sender_id">>

(***************************************************************************)
(* C5  When the caller gives both an alias key and its canonical key, the  *)
(* canonical name is bound to the caller's canonical value, coerced.       *)
(***************************************************************************)
Bound(c) == calls[c].pc \in {"bound", "done"}

C5_CanonicalWins ==
    \A c \in Calls : Bound(c) =>
        \A i \in DOMAIN Ov(c).aliases :
            LET alias == Ov(c).aliases[i].k
                canonical == Ov(c).aliases[i].v
            IN  (Has(calls[c].given, alias) /\ Has(calls[c].given, canonical)) =>
                    /\ Has(calls[c].bound_args, canonical)
                    /\ At(calls[c].bound_args, canonical) =
                          _coerce_value(KindOf(calls[c].tool, canonical),
                                        At(calls[c].given, canonical))

\* recipients and recipient both given, with different values.
C5_Witness ==
    /\ Done(1)
    /\ calls[1].tool = "send_quick_bulk_sms"
    /\ Has(calls[1].given, "recipients")
    /\ Has(calls[1].given, "recipient")
    /\ At(calls[1].given, "recipients") # At(calls[1].given, "recipient")
    /\ At(calls[1].bound_args, "recipient") = ListV(<<StrV(T_024)>>)

(***************************************************************************)
(* C6  A call with the envelope {kwargs: M} ends as the call with M does:  *)
(* the same Structured Error, or the same Binding handed to the domain     *)
(* function.                                                               *)
(***************************************************************************)
ViaEnvelope(c) == calls[c].raw = <<Item("kwargs", DictV(calls[c].given))>>

\* What the call with M spread as keyword arguments ends in.
DirectOutcome(c) == WrapperOutcome(Ov(c), Signature(calls[c].tool), calls[c].given)

C6_AsClaimed ==
    \A c \in Calls : (Done(c) /\ ViaEnvelope(c)) => calls[c].outcome = DirectOutcome(c)

\* C6 as amended: for every M that is not itself an envelope (a single key
\* "kwargs" holding a mapping).  Only one level is unwrapped, so an M that is
\* an envelope is unwrapped when passed directly and kept when nested.
C6_EnvelopeUnwrap ==
    \A c \in Calls : (Done(c) /\ ViaEnvelope(c) /\ ~IsEnvelope(calls[c].given)) =>
        calls[c].outcome = DirectOutcome(c)

C6_Witness ==
    /\ Done(1)
    /\ ViaEnvelope(1)
    /\ calls[1].tool = "send_quick_bulk_sms"
    /\ calls[1].outcome.kind = "invoked"
    /\ Has(calls[1].outcome.binding, "recipient")
    /\ ~Has(calls[1].outcome.binding, "kwargs")

(***************************************************************************)
(* C7  Normalizer followed by Alias Resolver is idempotent: applied to a   *)
(* mapping it has produced, it changes no key and no value.                *)
(***************************************************************************)
Resolved(c) == calls[c].pc \in {"aliased", "bound", "done"}

NormalizeAndResolve(c, kwargs) == ApplyAliases(Ov(c).aliases, Normalizer(kwargs))

C7_Idempotent ==
    \A c \in Calls : Resolved(c) =>
        NormalizeAndResolve(c, calls[c].kwargs) = calls[c].kwargs

\* A mapping that every stage changed: a key rewrite (group), and an alias
\* move that does not apply because of it.
C7_Witness ==
    /\ calls[1].pc = "aliased"
    /\ calls[1].tool = "send_bulk_group_sms"
    /\ Has(Unwrap(calls[1].raw), "group")
    /\ Has(Unwrap(calls[1].raw), "groups")
    /\ ~Has(Unwrap(calls[1].raw), "group_id")
    /\ Has(calls[1].kwargs, "group_id")
    /\ calls[1].kwargs # Unwrap(calls[1].raw)

(***************************************************************************)
(* C8  However the steps of several calls interleave, each call ends as it *)
(* would alone on its input, and every Override stays as registration left *)
(* it.                                                                     *)
(***************************************************************************)
\* The overrides when register_flex_functions has returned.
RegisteredOverrides ==
    [name \in Tools |->
        [SuppliedOverrides[name] EXCEPT
            !.aliases = Update(AliasesFor(name), SuppliedOverrides[name].aliases)]]

C8_Interleaving ==
    /\ registered = Len(ToolOrder) => overrides = RegisteredOverrides
    /\ \A c \in Calls : Done(c) =>
          calls[c].outcome =
              WrapperOutcome(RegisteredOverrides[calls[c].tool],
                             Signature(calls[c].tool), calls[c].raw)

\* Two calls of different tools in flight, one finished while the other is
\* between its stages.
C8_Witness ==
    /\ Done(1)
    /\ calls[1].tool = "add_contact"
    /\ calls[2].pc = "bound"
    /\ calls[2].tool = "send_quick_bulk_sms"
    /\ calls[1].outcome.kind = "error"
    /\ Get(calls[2].bound_args, "schedule") = BoolV(TRUE)

(***************************************************************************)
(* C9  An alias key given without its canonical key is moved: the domain   *)
(* function gets the coerced value under the canonical name and does not   *)
(* get the alias key.                                                      *)
(***************************************************************************)
\* The caller gives this alias of the canonical name and no other.
OnlyAlias(c, alias, canonical) ==
    /\ Has(calls[c].given, alias)
    /\ ~Has(calls[c].given, canonical)
    /\ \A key \in Keys(calls[c].given) \ {alias} :
          /\ CanonicalKey(key) # canonical
          /\ \A j \in DOMAIN Ov(c).aliases :
                Ov(c).aliases[j].k = key => Ov(c).aliases[j].v # canonical

\* The scenario of the specification: recipients, sender_id and message.
QuickSmsScenario ==
    <<Item("recipients", ListV(<<StrV(T_Phone)>>)), Item("sender_id", StrV(T_ACME)),
      Item("message", StrV(T_Hi))>>

C9_AliasMoved ==
    \A c \in Calls :
        (Done(c) /\ ~IsEnvelope(calls[c].given) /\ calls[c].outcome.kind = "invoked") =>
            /\ \A i \in DOMAIN Ov(c).aliases :
                  LET alias == Ov(c).aliases[i].k
                      canonical == Ov(c).aliases[i].v
                  IN  OnlyAlias(c, alias, canonical) =>
                          /\ Has(calls[c].outcome.binding, canonical)
                          /\ At(calls[c].outcome.binding, canonical) =
                                _coerce_value(KindOf(calls[c].tool, canonical),
                                              At(calls[c].given, alias))
                          /\ ~Has(calls[c].outcome.binding, alias)
            /\ (calls[c].tool = "send_quick_bulk_sms" /\ calls[c].given = QuickSmsScenario) =>
                  /\ Keys(calls[c].outcome.binding) =
                        {"recipient", "sender_id", "message", "schedule"}
                  /\ At(calls[c].outcome.binding, "recipient") = ListV(<<StrV(T_Phone)>>)
                  /\ At(calls[c].outcome.binding, "sender_id") = StrV(T_ACME)
                  /\ At(calls[c].outcome.binding, "message") = StrV(T_Hi)
                  /\ At(calls[c].outcome.binding, "schedule") = BoolV(FALSE)

(***************************************************************************)
(* C10  A default is used only when the alias-resolved arguments lack the  *)
(* name: a value the caller gives is bound, coerced for a declared         *)
(* parameter and unchanged for a pass-through key.                         *)
(***************************************************************************)
C10_CallerBeatsDefault ==
    \A c \in Calls : Bound(c) =>
        \A i \in DOMAIN Ov(c).defaults :
            LET nm == Ov(c).defaults[i].k
            IN  Has(calls[c].kwargs, nm) =>
                    At(calls[c].bound_args, nm) =
                        IF Declared(calls[c].tool, nm)
                        THEN _coerce_value(KindOf(calls[c].tool, nm), At(calls[c].kwargs, nm))
                        ELSE At(calls[c].kwargs, nm)

(***************************************************************************)
(* C11  In the chat loop, a fault raised while a user turn is processed    *)
(* (by the agent run, by its event stream, or propagated out of a tool     *)
(* wrapper) never ends the session: it is reported, an assistant error     *)
(* message is appended after the user's message, and the loop reads the    *)
(* next input.  The session ends only on quit/exit/bye or on a keyboard    *)
(* interrupt.                                                              *)
(***************************************************************************)
\* A fault of the turn is in flight.
C11_Faulted ==
    chat.pc = "raising" /\ chat.where = "inner" /\ IsException(chat.exc.type)

C11_Reading == chat.pc = "input"

ErrorMessage(exc) == Message("assistant", <<"Sorry, I encountered an error: ", exc.text>>)

\* The last two messages of the transcript.
LastTwo(messages) == SubSeq(messages, Len(messages) - 1, Len(messages))

\* Why the loop has ended; what the transcript holds when a fault of the
\* turn has been reported.
C11_Safe ==
    /\ chat.pc = "ended" =>
          \/ chat.exc = NoException /\ Lower(chat.user_input) \in QuitWords
          \/ chat.exc.type = "KeyboardInterrupt"
    /\ (chat.pc = "input" /\ chat.out # <<>> /\ chat.out[1] = "Streaming error: ") =>
          /\ Len(chat.messages) >= 3
          /\ LastTwo(chat.messages) =
                <<Message("user", chat.user_input), ErrorMessage(chat.exc)>>
          /\ chat.out[2] = chat.exc.text

\* The step a fault of the turn is followed by.
C11_Handled ==
    C11_Faulted =>
        /\ chat'.pc = "input"
        /\ chat.messages[Len(chat.messages)] = Message("user", chat.user_input)
        /\ chat'.messages = Append(chat.messages, ErrorMessage(chat.exc))
        /\ chat'.out = <<"Streaming error: ", chat.exc.text>>

C11_FaultSurvived ==
    /\ []C11_Safe
    /\ [][C11_Handled]_vars
    /\ C11_Faulted ~> C11_Reading

\* A domain function raised behind the wrapper of add_contact: the fault is
\* reported and the loop is back at the prompt.
C11_Witness ==
    /\ chat.pc = "input"
    /\ chat.exc.type = "RuntimeError"
    /\ chat.exc.text = "add_contact: request failed"
    /\ chat.out = <<"Streaming error: ", "add_contact: request failed">>
    /\ LastTwo(chat.messages) = <<Message("user", T_Hi), ErrorMessage(chat.exc)>>

(***************************************************************************)
(* C12  A wrapper call leaves the caller's own argument mapping as it was: *)
(* the mapping the caller passed, the inner mapping of an envelope         *)
(* included, has the same keys and values after the call, whether the call *)
(* ends in a Structured Error or in an invocation.                         *)
(***************************************************************************)
C12_CallerUnchanged ==
    \A c \in Calls : Done(c) => calls[c].caller = calls[c].given

====
